---- MODULE Spec2Model ----
(***************************************************************************)
(* A model of chem_eng_solver: the Units session (units.py), the bracket   *)
(* search of the Solver (base_solver.py) and the Stoichiometry balancer    *)
(* (stoichiometry.py).                                                     *)
(*                                                                         *)
(* Python strings are sequences of one-character strings.  Regular         *)
(* expressions are modelled by the match they compute.                     *)
(***************************************************************************)
EXTENDS Integers, Sequences, FiniteSets, TLC

\* ------------------------------------------------------------------------
\* Character classes and string helpers
\* ------------------------------------------------------------------------

Digits == {"0", "1", "2", "3", "4", "5", "6", "7", "8", "9"}

Upper == {"A", "B", "C", "D", "E", "F", "G", "H", "I", "J", "K", "L", "M",
          "N", "O", "P", "Q", "R", "S", "T", "U", "V", "W", "X", "Y", "Z"}

Lower == {"a", "b", "c", "d", "e", "f", "g", "h", "i", "j", "k", "l", "m",
          "n", "o", "p", "q", "r", "s", "t", "u", "v", "w", "x", "y", "z"}

Letters == Upper \cup Lower

Whitespace == {" "}

DigitVal(c) ==
    CASE c = "0" -> 0 [] c = "1" -> 1 [] c = "2" -> 2 [] c = "3" -> 3
      [] c = "4" -> 4 [] c = "5" -> 5 [] c = "6" -> 6 [] c = "7" -> 7
      [] c = "8" -> 8 [] c = "9" -> 9

DigitChar(d) ==
    CASE d = 0 -> "0" [] d = 1 -> "1" [] d = 2 -> "2" [] d = 3 -> "3"
      [] d = 4 -> "4" [] d = 5 -> "5" [] d = 6 -> "6" [] d = 7 -> "7"
      [] d = 8 -> "8" [] d = 9 -> "9"

\* s[a..b] (1-based, inclusive), empty when a > b
Slice(s, a, b) == IF a > b THEN << >> ELSE SubSeq(s, a, b)

\* s[a..]
From(s, a) == Slice(s, a, Len(s))

\* length of the longest run of characters of class cls starting at s[p]
RECURSIVE RunLen(_, _, _)
RunLen(s, p, cls) ==
    IF p <= Len(s) /\ s[p] \in cls THEN 1 + RunLen(s, p + 1, cls) ELSE 0

\* F applied to v: names a value that is used several times
Bind(v, F(_)) == F(v)

\* the position after the longest run of characters of cls starting at s[p]
SkipRun(s, p, cls) == p + RunLen(s, p, cls)

\* the position after s[p] when it is of cls, else p
SkipOpt(s, p, cls) == IF p <= Len(s) /\ s[p] \in cls THEN p + 1 ELSE p

\* int(digits) for a non-empty digit string
RECURSIVE IntOf(_)
IntOf(ds) ==
    IF ds = << >> THEN 0
    ELSE 10 * IntOf(Slice(ds, 1, Len(ds) - 1)) + DigitVal(ds[Len(ds)])

\* str(n) for a natural number
RECURSIVE NatStr(_)
NatStr(n) ==
    IF n < 10 THEN << DigitChar(n) >>
    ELSE Append(NatStr(n \div 10), DigitChar(n % 10))

\* s * n
RECURSIVE Repeat(_, _)
Repeat(s, n) == IF n <= 0 THEN << >> ELSE s \o Repeat(s, n - 1)

\* pat occurs in s at position p
OccursAt(s, pat, p) ==
    p + Len(pat) - 1 <= Len(s) /\ Slice(s, p, p + Len(pat) - 1) = pat

\* str.replace(old, new) : every non-overlapping occurrence, left to right
RECURSIVE ReplaceAll(_, _, _)
ReplaceAll(s, old, new) ==
    IF s = << >> THEN << >>
    ELSE IF OccursAt(s, old, 1)
         THEN new \o ReplaceAll(From(s, Len(old) + 1), old, new)
         ELSE << s[1] >> \o ReplaceAll(From(s, 2), old, new)

\* str.replace(old, new, 1) : the first occurrence only
RECURSIVE ReplaceFirst(_, _, _)
ReplaceFirst(s, old, new) ==
    IF s = << >> THEN << >>
    ELSE IF OccursAt(s, old, 1)
         THEN new \o From(s, Len(old) + 1)
         ELSE << s[1] >> \o ReplaceFirst(From(s, 2), old, new)

\* all strings over alphabet of length lo..hi
StringsOver(alphabet, lo, hi) ==
    UNION { [1..n -> alphabet] : n \in lo..hi }

\* sep.join(ss)
RECURSIVE Join(_, _)
Join(sep, ss) ==
    IF ss = << >> THEN << >>
    ELSE IF Len(ss) = 1 THEN ss[1]
    ELSE ss[1] \o sep \o Join(sep, Tail(ss))

Min2(a, b) == IF a <= b THEN a ELSE b

Abs(a) == IF a < 0 THEN -a ELSE a

\* ------------------------------------------------------------------------
\* units.py : Patterns
\* ------------------------------------------------------------------------

MAX_SIGFIGS == 6

\* [-0-9\.eE]
ValueChars == Digits \cup {"-", ".", "e", "E"}

\* [a-zA-Z)^/*0-9\s-]
UnitChars == Letters \cup Digits \cup Whitespace \cup {")", "^", "/", "*", "-"}

\* Patterns.initial.findall(input_str): << >> or << <<value, units>> >>.
\* The value group is the longest prefix of ValueChars (v characters);
\* \s+ takes the w whitespace characters after it and gives one back when
\* nothing of UnitChars follows the run; the units group is the longest
\* run of UnitChars from there.
InitialGroups(input_str, v, w, u) ==
    IF v = 0 \/ w = 0 THEN << >>
    ELSE IF u > 0
         THEN << << Slice(input_str, 1, v),
                    Slice(input_str, v + w + 1, v + w + u) >> >>
         ELSE IF w >= 2
              THEN << << Slice(input_str, 1, v),
                         Slice(input_str, v + w, v + w) >> >>
              ELSE << >>

InitialFindall(input_str) ==
    Bind(RunLen(input_str, 1, ValueChars), LAMBDA v :
    Bind(RunLen(input_str, v + 1, Whitespace), LAMBDA w :
      InitialGroups(input_str, v, w, RunLen(input_str, v + w + 1, UnitChars))))

\* str.rstrip("0")
RECURSIVE RStripZeros(_)
RStripZeros(s) ==
    IF s # << >> /\ s[Len(s)] = "0" THEN RStripZeros(Slice(s, 1, Len(s) - 1))
    ELSE s

\* Patterns.sigfigs_repl on the two groups of a match
SigfigsReplJoin(left, right) ==
    IF left # << "0" >> THEN left \o right ELSE right

\* a replacement that keeps the trailing zeros of left
SigfigsReplNoStrip(left, right) == SigfigsReplJoin(left, right)

sigfigs_repl(left, right) ==
    SigfigsReplJoin(IF right = << >> THEN RStripZeros(left) ELSE left, right)

\* One match of Patterns.sigfigs at position p of s: every part of the
\* pattern is optional and greedy, so the match never backtracks.
\*   [-0]* ([0-9]*)? \.? ([0-9]*)? [eE]? [0-9-]*
\* pa, pl, pd, pr, pe are the positions after the first five parts.
SigfigsMatch(s, p) ==
    Bind(SkipRun(s, p, {"-", "0"}), LAMBDA pa :
    Bind(SkipRun(s, pa, Digits), LAMBDA pl :
    Bind(SkipOpt(s, pl, {"."}), LAMBDA pd :
    Bind(SkipRun(s, pd, Digits), LAMBDA pr :
    Bind(SkipOpt(s, pr, {"e", "E"}), LAMBDA pe :
      [ left  |-> Slice(s, pa, pl - 1),
        right |-> Slice(s, pd, pr - 1),
        end   |-> SkipRun(s, pe, Digits \cup {"-"}) ])))))

\* Patterns.sigfigs.sub(Patterns.sigfigs_repl, value) from position p on:
\* a non-empty match is replaced; where the match is empty the replacement
\* is empty too and the character is copied.
RECURSIVE SigfigsSub(_, _)
SigfigsSub(s, p) ==
    IF p > Len(s) THEN << >>
    ELSE Bind(SigfigsMatch(s, p), LAMBDA m :
           IF m.end > p
           THEN sigfigs_repl(m.left, m.right) \o SigfigsSub(s, m.end)
           ELSE << s[p] >> \o SigfigsSub(s, p + 1))

\* len(Patterns.sigfigs.sub(Patterns.sigfigs_repl, value))
SigfigCount(value) == Len(SigfigsSub(value, 1))

\* ------------------------------------------------------------------------
\* float(value), as an exact decimal: (-1)^neg * mant * 10^exp
\* ------------------------------------------------------------------------

RECURSIVE NormDecimal(_, _, _)
NormDecimal(neg, mant, exp) ==
    IF mant = 0 THEN [neg |-> neg, mant |-> 0, exp |-> 0]
    ELSE IF mant % 10 = 0 THEN NormDecimal(neg, mant \div 10, exp + 1)
    ELSE [neg |-> neg, mant |-> mant, exp |-> exp]

\* The parts of a float literal: [-] digits [. digits] [(e|E) [-] digits].
\* ps, pi, pd, pf, pe, pg are the positions after the sign, the integer
\* digits, the point, the fraction digits, the exponent marker and the
\* exponent's sign.  well tells whether the whole string is such a
\* literal with at least one mantissa digit and, after an exponent
\* marker, at least one exponent digit; otherwise float() raises
\* ValueError.
FloatParts(value) ==
    Bind(SkipOpt(value, 1, {"-"}), LAMBDA ps :
    Bind(SkipRun(value, ps, Digits), LAMBDA pi :
    Bind(SkipOpt(value, pi, {"."}), LAMBDA pd :
    Bind(IF pd > pi THEN SkipRun(value, pd, Digits) ELSE pd, LAMBDA pf :
    Bind(SkipOpt(value, pf, {"e", "E"}), LAMBDA pe :
    Bind(IF pe > pf THEN SkipOpt(value, pe, {"-"}) ELSE pe, LAMBDA pg :
    Bind(IF pe > pf THEN SkipRun(value, pg, Digits) ELSE pg, LAMBDA ph :
      [ neg   |-> ps > 1,
        int   |-> Slice(value, ps, pi - 1),
        frac  |-> Slice(value, pd, pf - 1),
        eneg  |-> pg > pe,
        edig  |-> Slice(value, pg, ph - 1),
        well  |-> /\ (pi - ps) + (pf - pd) >= 1
                  /\ (pe > pf => ph > pg)
                  /\ ph = Len(value) + 1 ])))))))

FloatOK(value) == FloatParts(value).well

FloatExp(p) ==
    IF p.edig = << >> THEN 0
    ELSE IF p.eneg THEN 0 - IntOf(p.edig) ELSE IntOf(p.edig)

Float(value) ==
    Bind(FloatParts(value), LAMBDA p :
      NormDecimal(p.neg, IntOf(p.int \o p.frac), FloatExp(p) - Len(p.frac)))

\* ------------------------------------------------------------------------
\* units.py : Units._units_parser
\* ------------------------------------------------------------------------

\* The unit name table behind getattr(u, unit): the names of it that the
\* modelled inputs can spell, each with its factor to MKS as a power of
\* ten and its dimension.  Any other name raises AttributeError.
UnitNames == { << "m" >>, << "s" >>, << "m", "m" >>, << "m", "s" >> }

UnitScale10(unit) == IF Len(unit) = 2 THEN 0 - 3 ELSE 0

UnitDim(unit) == IF unit[Len(unit)] = "m" THEN "length" ELSE "time"

\* final_units = 1.0 : a bare float, no unit multiplied in yet
NoUnits == [ quantity |-> FALSE, pow |-> [ n \in UnitNames |-> 0 ] ]

\* Patterns.base_units.findall(units): the maximal runs of letters
RECURSIVE BaseUnitsFindall(_, _)
BaseUnitsFindall(s, p) ==
    IF p > Len(s) THEN << >>
    ELSE Bind(SkipRun(s, p, Letters), LAMBDA q :
           IF q = p THEN BaseUnitsFindall(s, p + 1)
           ELSE << Slice(s, p, q - 1) >> \o BaseUnitsFindall(s, q))

\* re.findall(Patterns.operators.format(unit=unit), units):
\* ^[\*/]?{unit}\^?(-?\d+)? matched at the start of units; << >> or one
\* pair << base_str, exponent >>.  po, pu, ph, pm, pz are the positions
\* after the operator, the unit, the ^, the - and the digits; without a
\* digit the exponent group is empty and the match ends after the ^.
OperatorsFindall(unit, units) ==
    Bind(SkipOpt(units, 1, {"*", "/"}), LAMBDA po :
      IF ~OccursAt(units, unit, po) THEN << >>
      ELSE Bind(po + Len(unit), LAMBDA pu :
           Bind(SkipOpt(units, pu, {"^"}), LAMBDA ph :
           Bind(SkipOpt(units, ph, {"-"}), LAMBDA pm :
           Bind(SkipRun(units, pm, Digits), LAMBDA pz :
             IF pz = pm
             THEN << << Slice(units, 1, ph - 1), << >> >> >>
             ELSE << << Slice(units, 1, pz - 1), Slice(units, ph, pz - 1) >> >>)))))

\* int(exponent) of a signed digit string
SignedInt(ex) == IF ex[1] = "-" THEN 0 - IntOf(Tail(ex)) ELSE IntOf(ex)

\* final_units *= base_unit ** k  (k < 0 : /=)
MulUnit(final_units, unit, k) ==
    [ quantity |-> TRUE,
      pow      |-> [ final_units.pow EXCEPT ![unit] = @ + k ] ]

\* one pass of the loop body for a token whose pattern matched
UnitsStep(final_units, unit, base_str, exponent) ==
    Bind(IF exponent = << >> THEN 1 ELSE SignedInt(exponent), LAMBDA k :
      IF base_str[1] = "/"
      THEN MulUnit(final_units, unit, 0 - k)
      ELSE MulUnit(final_units, unit, k))

\* The loop of _units_parser over the tokens from index i on, with the
\* remaining string units and the product final_units so far.
RECURSIVE UnitsLoop(_, _, _, _)
UnitsLoop(tokens, i, units, final_units) ==
    IF i > Len(tokens) THEN [ status |-> "ok", units |-> final_units ]
    ELSE IF tokens[i] \notin UnitNames
    THEN [ status |-> "AttributeError", unit |-> tokens[i] ]
    ELSE Bind(OperatorsFindall(tokens[i], units), LAMBDA parsed :
           IF parsed = << >>
           THEN [ status |-> "CannotBuildUnits", unit |-> tokens[i],
                  remaining |-> units ]
           ELSE UnitsLoop(tokens, i + 1,
                          ReplaceFirst(units, parsed[1][1], << >>),
                          UnitsStep(final_units, tokens[i],
                                    parsed[1][1], parsed[1][2])))

UnitsNormalize(units) ==
    ReplaceAll(ReplaceAll(units, << " " >>, << >>), << "*", "*" >>, << "^" >>)

\* Units._units_parser(units)
UnitsParser(units) ==
    Bind(UnitsNormalize(units), LAMBDA u0 :
      UnitsLoop(BaseUnitsFindall(u0, 1), 1, u0, NoUnits))

\* ------------------------------------------------------------------------
\* units.py : Units.count_sigfigs, _initial_parser, unit_converter
\* ------------------------------------------------------------------------

\* count_sigfigs that stores the new count instead of the minimum
CountSigfigsNoMin(sf, value) == SigfigCount(value)

\* self.sigfigs after count_sigfigs(value)
CountSigfigsNew(sf, value) == Min2(sf, SigfigCount(value))

\* _initial_parser once the pattern matched: count_sigfigs(value) runs
\* before float(value)
InitialParserValue(sf2, value, units) ==
    IF ~FloatOK(value)
    THEN [ status |-> "ValueError", input |-> value, sigfigs |-> sf2 ]
    ELSE [ status |-> "ok", value |-> Float(value),
           units |-> units, sigfigs |-> sf2 ]

\* _initial_parser(input_str) in a session whose sigfigs is sf: the
\* outcome and the session's sigfigs afterwards
InitialParserRun(sf, input_str) ==
    Bind(InitialFindall(input_str), LAMBDA found :
      IF found = << >>
      THEN [ status |-> "MalformedInput", input |-> input_str, sigfigs |-> sf ]
      ELSE InitialParserValue(CountSigfigsNew(sf, found[1][1]),
                              found[1][1], found[1][2]))

\* the sum of pow[n] * weight[n] over names
RECURSIVE PowSum(_, _, _)
PowSum(pow, weight, names) ==
    IF names = {} THEN 0
    ELSE Bind(CHOOSE n \in names : TRUE, LAMBDA n :
           pow[n] * weight[n] + PowSum(pow, weight, names \ {n}))

\* quantity = value * units; quantity.convert_to_mks(); quantity.to_value()
ToMks(value, final_units) ==
    [ magnitude |->
          NormDecimal(value.neg, value.mant,
              value.exp + PowSum(final_units.pow,
                                 [ n \in UnitNames |-> UnitScale10(n) ],
                                 UnitNames)),
      length |-> PowSum(final_units.pow,
                        [ n \in UnitNames |-> IF UnitDim(n) = "length" THEN 1 ELSE 0 ],
                        UnitNames),
      time   |-> PowSum(final_units.pow,
                        [ n \in UnitNames |-> IF UnitDim(n) = "time" THEN 1 ELSE 0 ],
                        UnitNames) ]

\* unit_converter after _initial_parser returned first and _units_parser
\* ended as parsed
UnitConverterEnd(first, parsed) ==
    IF parsed.status = "AttributeError"
    THEN [ status |-> "AttributeError", unit |-> parsed.unit,
           sigfigs |-> first.sigfigs ]
    ELSE IF parsed.status = "CannotBuildUnits"
    THEN [ status |-> "CannotBuildUnits", unit |-> parsed.unit,
           remaining |-> parsed.remaining, sigfigs |-> first.sigfigs ]
    ELSE IF ~parsed.units.quantity
    THEN \* value * 1.0 is a float, which has no convert_to_mks
         [ status |-> "AttributeError", unit |-> << >>,
           sigfigs |-> first.sigfigs ]
    ELSE [ status |-> "ok", quantity |-> ToMks(first.value, parsed.units),
           sigfigs |-> first.sigfigs ]

\* unit_converter(input_str) in a session whose sigfigs is sf
UnitConverterRun(sf, input_str) ==
    Bind(InitialParserRun(sf, input_str), LAMBDA first :
      IF first.status # "ok" THEN first
      ELSE UnitConverterEnd(first, UnitsParser(first.units)))

\* ------------------------------------------------------------------------
\* State
\* ------------------------------------------------------------------------

VARIABLES
    \* units.py : one Units session
    sigfigs,          \* self.sigfigs
    ceiling,          \* the max_sigfigs argument the session was created with
    ucall,            \* the last call on the session: operation, argument, outcome
    \* base_solver.py : Solver.find_bounds
    func,             \* the function handed to find_bounds
    changes,          \* the list find_bounds returned
    bpc,              \* "ready" before the call, "done" after it
    \* stoichiometry.py : one Stoichiometry object under construction
    input_eq,         \* self.input_eq, the constructor's argument
    unpacked,         \* the local input_eq after _unpack_input_eq_groups
    element_balance,  \* self.element_balance: keys in insertion order, rows
    molecules,        \* self.molecules
    balance,          \* self.balance
    result,           \* self.result
    spc,              \* the constructor's position
    serror,           \* the exception that ended the constructor, or "none"
    \* base_solver.py, fluids.py : Solver and Fluids objects
    registry,         \* the Units objects created so far, by reference
    solvers,          \* the Solver / Fluids objects created so far
    scall             \* the last call on a solver: operation, object, outcome

unitsVars == << sigfigs, ceiling, ucall >>

boundsVars == << func, changes, bpc >>

stoichVars == << input_eq, unpacked, element_balance, molecules, balance,
                 result, spc, serror >>

solverVars == << registry, solvers, scall >>

vars == << unitsVars, boundsVars, stoichVars, solverVars >>

None == [ status |-> "none" ]

\* the parts of the state a specification does not use
UnitsIdle ==
    /\ sigfigs = MAX_SIGFIGS
    /\ ceiling = MAX_SIGFIGS
    /\ ucall = [ op |-> "none", arg |-> << >>, ret |-> None ]

BoundsIdle ==
    /\ func = << >>
    /\ changes = << >>
    /\ bpc = "idle"

SolversIdle ==
    /\ registry = << >>
    /\ solvers = << >>
    /\ scall = [ op |-> "none", self |-> 0, args |-> << >>, status |-> "none" ]

StoichIdle ==
    /\ input_eq = << >>
    /\ unpacked = << >>
    /\ element_balance = [ keys |-> << >>, rows |-> << >> ]
    /\ molecules = [ reactants |-> << >>, products |-> << >> ]
    /\ balance = << >>
    /\ result = << >>
    /\ spc = "idle"
    /\ serror = "none"

\* ------------------------------------------------------------------------
\* The Units session: calls in any order on one session
\* ------------------------------------------------------------------------

MaxCeiling == 3

Ceilings == (0..MaxCeiling) \cup { MAX_SIGFIGS }

\* numeric tokens a caller may hand in: zeros, plain numbers, trailing and
\* leading zeros, and tokens of ValueChars that are no number
SessValues ==
    { << "0" >>, << "-", "0" >>, << "0", "0" >>, << "0", "." >>,
      << "1" >>, << "1", "2" >>, << "1", ".", "0" >>, << ".", "1" >>,
      << "1", "0", "0" >>, << "1", "2", "3", "4" >>,
      << "-" >>, << "1", "-", "2" >> }

\* unit strings: a unit, an unknown name, an expression that cannot be
\* built, and one that starts with a parenthesis
SessUnits == { << "m" >>, << "s", "s" >>, << "^", "m" >>, << "(", "m" >> }

SessInputs == { v \o << " " >> \o u : v \in SessValues, u \in SessUnits }

\* Units(max_sigfigs)
UnitsInit ==
    /\ ceiling \in Ceilings
    /\ sigfigs = ceiling
    /\ ucall = [ op |-> "none", arg |-> << >>, ret |-> None ]

\* units.count_sigfigs(value)
CountSigfigs(value) ==
    /\ sigfigs' = CountSigfigsNew(sigfigs, value)
    /\ ucall' = [ op |-> "count_sigfigs", arg |-> value,
                  ret |-> [ status |-> "ok" ] ]
    /\ UNCHANGED ceiling

\* units._initial_parser(input_str)
InitialParser(input_str) ==
    \E r \in { InitialParserRun(sigfigs, input_str) } :
        /\ sigfigs' = r.sigfigs
        /\ ucall' = [ op |-> "_initial_parser", arg |-> input_str, ret |-> r ]
        /\ UNCHANGED ceiling

\* Units._units_parser(units), a static method
UnitsParserCall(units) ==
    /\ ucall' = [ op |-> "_units_parser", arg |-> units,
                  ret |-> UnitsParser(units) ]
    /\ UNCHANGED << sigfigs, ceiling >>

\* units.unit_converter(input_str)
UnitConverter(input_str) ==
    \E r \in { UnitConverterRun(sigfigs, input_str) } :
        /\ sigfigs' = r.sigfigs
        /\ ucall' = [ op |-> "unit_converter", arg |-> input_str, ret |-> r ]
        /\ UNCHANGED ceiling

SessCountSigfigs ==
    /\ \E value \in SessValues : CountSigfigs(value)
    /\ UNCHANGED << boundsVars, stoichVars, solverVars >>

SessInitialParser ==
    /\ \E input_str \in SessInputs : InitialParser(input_str)
    /\ UNCHANGED << boundsVars, stoichVars, solverVars >>

SessUnitsParser ==
    /\ \E units \in SessUnits : UnitsParserCall(units)
    /\ UNCHANGED << boundsVars, stoichVars, solverVars >>

SessUnitConverter ==
    /\ \E input_str \in SessInputs : UnitConverter(input_str)
    /\ UNCHANGED << boundsVars, stoichVars, solverVars >>

Init == UnitsInit /\ BoundsIdle /\ StoichIdle /\ SolversIdle

Next ==
    \/ SessCountSigfigs
    \/ SessInitialParser
    \/ SessUnitsParser
    \/ SessUnitConverter

Spec == Init /\ [][Next]_vars

\* ------------------------------------------------------------------------
\* The parsers as functions of their input: one call on a fresh session
\* ------------------------------------------------------------------------

MaxUnitLen == 4

MaxValLen == 3

UnitInputs ==
    StringsOver({"m", "s", "(", ")", "/", "*", "^", "2", "-"}, 0, MaxUnitLen)

ValueInputs ==
    { v \o sep \o u :
        v \in StringsOver({"-", "0", "1", ".", "e"}, 1, MaxValLen),
        sep \in { << >>, << " " >>, << " ", " " >> },
        u \in { << >>, << "m" >>, << "(" >>, << "m", "(" >>, << "m", " ", "s" >> } }

ParseInputs == UnitInputs \cup ValueInputs

ParseInit ==
    /\ ceiling = MAX_SIGFIGS
    /\ sigfigs = ceiling
    /\ \E s \in ParseInputs :
          ucall = [ op |-> "pending", arg |-> s, ret |-> None ]

ParseCountSigfigs ==
    /\ ucall.op = "pending"
    /\ CountSigfigs(ucall.arg)
    /\ UNCHANGED << boundsVars, stoichVars, solverVars >>

ParseInitialParser ==
    /\ ucall.op = "pending"
    /\ InitialParser(ucall.arg)
    /\ UNCHANGED << boundsVars, stoichVars, solverVars >>

ParseUnitsParser ==
    /\ ucall.op = "pending"
    /\ UnitsParserCall(ucall.arg)
    /\ UNCHANGED << boundsVars, stoichVars, solverVars >>

ParseUnitConverter ==
    /\ ucall.op = "pending"
    /\ UnitConverter(ucall.arg)
    /\ UNCHANGED << boundsVars, stoichVars, solverVars >>

InitParse == ParseInit /\ BoundsIdle /\ StoichIdle /\ SolversIdle

NextParse ==
    \/ ParseCountSigfigs
    \/ ParseInitialParser
    \/ ParseUnitsParser
    \/ ParseUnitConverter

SpecParse == InitParse /\ [][NextParse]_vars

\* ------------------------------------------------------------------------
\* Properties of the Units session
\* ------------------------------------------------------------------------

\* the numeric literal a call counted: the argument of count_sigfigs, the
\* value group of a parse whose pattern matched
Counted(call) ==
    IF call.op = "count_sigfigs" THEN << call.arg >>
    ELSE IF call.op \in { "_initial_parser", "unit_converter" }
    THEN (IF InitialFindall(call.arg) = << >> THEN << >>
          ELSE << InitialFindall(call.arg)[1][1] >>)
    ELSE << >>

\* C1: a session created with ceiling c has sigfigs = c before any input
\* is parsed; from one call to the next sigfigs never grows, it changes
\* only to the count of the literal the call parsed, and it never exceeds c.
C1_SigfigsNonIncreasing ==
    /\ [](ucall.op = "none" => sigfigs = ceiling)
    /\ [](sigfigs <= ceiling)
    /\ [][ /\ sigfigs' <= sigfigs
           /\ sigfigs' < sigfigs =>
                 /\ Counted(ucall') # << >>
                 /\ sigfigs' = SigfigCount(Counted(ucall')[1]) ]_vars

\* C1 witness: a session lowered below its ceiling by an earlier parse,
\* whose last parse counted more figures and left the minimum alone
C1_Witness ==
    /\ ucall.op = "unit_converter"
    /\ ucall.ret.status = "ok"
    /\ sigfigs < ceiling
    /\ sigfigs < SigfigCount(Counted(ucall)[1])

\* ------------------------------------------------------------------------
\* Properties of the parsers
\* ------------------------------------------------------------------------

IsDigits(s) == \A i \in 1..Len(s) : s[i] \in Digits

\* digits with at most one decimal point and at least one digit
IsMantissa(s) ==
    \E k \in 0..Len(s) :
        /\ IsDigits(Slice(s, 1, k))
        /\ \/ k = Len(s) /\ k >= 1
           \/ /\ k < Len(s)
              /\ s[k + 1] = "."
              /\ IsDigits(From(s, k + 2))
              /\ Len(s) >= 2

\* e or E, an optional sign, digits
IsExponent(s) ==
    /\ Len(s) >= 2
    /\ s[1] \in { "e", "E" }
    /\ IF s[2] = "-" THEN Len(s) >= 3 /\ IsDigits(From(s, 3))
       ELSE IsDigits(From(s, 2))

\* a number: optional sign, digits, optional decimal point, optional exponent
IsNumber(s) ==
    \E a \in 0..1, b \in 0..Len(s) :
        /\ a <= b
        /\ (a = 1 => s[1] = "-")
        /\ IsMantissa(Slice(s, a + 1, b))
        /\ (b < Len(s) => IsExponent(From(s, b + 1)))

\* a unit expression: letters, digits, whitespace, * / ^ and -, no parentheses
IsUnitExpression(s) ==
    /\ s # << >>
    /\ \A i \in 1..Len(s) :
          s[i] \in Letters \cup Digits \cup Whitespace \cup { "*", "/", "^", "-" }

\* <number><whitespace><unit-expression>
IsValueAndUnits(s) ==
    \E a \in 1..Len(s), b \in 1..Len(s) :
        /\ a < b
        /\ IsNumber(Slice(s, 1, a))
        /\ \A i \in (a + 1)..b : s[i] \in Whitespace
        /\ IsUnitExpression(From(s, b + 1))

\* C9: _initial_parser fails with the malformed-input error, naming the
\* input, for every input that is not <number><whitespace><unit-expression>.
C9_MalformedInputReported ==
    (ucall.op = "_initial_parser" /\ ~IsValueAndUnits(ucall.arg))
        => (ucall.ret.status = "MalformedInput" /\ ucall.ret.input = ucall.arg)

\* C10: _units_parser raises the cannot-build error, naming the unit and
\* the remaining string, for every unit string that contains a "(".
C10_ParenthesisRejected ==
    (ucall.op = "_units_parser" /\ \E i \in 1..Len(ucall.arg) : ucall.arg[i] = "(")
        => ucall.ret.status = "CannotBuildUnits"

\* ------------------------------------------------------------------------
\* base_solver.py : Solver.find_bounds
\* ------------------------------------------------------------------------

MAX_BOUNDS == 7

RECURSIVE Pow10(_)
Pow10(x) == IF x = 0 THEN 1 ELSE 10 * Pow10(x - 1)

\* values after values.sort(): -10^6, ..., -1, 0, 1, ..., 10^6
Values ==
    [ i \in 1..(2 * MAX_BOUNDS + 1) |->
        IF i <= MAX_BOUNDS THEN 0 - Pow10(MAX_BOUNDS - i)
        ELSE IF i = MAX_BOUNDS + 1 THEN 0
        ELSE Pow10(i - MAX_BOUNDS - 2) ]

Sign(v) == IF v > 0 THEN 1 ELSE IF v < 0 THEN 0 - 1 ELSE 0

\* A function is lead * (x - r1) * ... * (x - rk): np.sign of its value at x
\* is the product of the signs of its factors.
RECURSIVE SignOfProduct(_, _, _)
SignOfProduct(lead, roots, x) ==
    IF roots = << >> THEN Sign(lead)
    ELSE Sign(x - Head(roots)) * SignOfProduct(lead, Tail(roots), x)

\* signs = np.sign(func(values))
Signs(f) == [ i \in 1..Len(Values) |-> SignOfProduct(f.lead, f.roots, Values[i]) ]

\* for idx in range(first, size): the pairs appended to changes
\* (idx is the 0-based index of the source, signs[idx] is signs[idx + 1] here)
RECURSIVE FindBoundsLoop(_, _, _, _)
FindBoundsLoop(signs, idx, size, acc) ==
    IF idx >= size THEN acc
    ELSE FindBoundsLoop(signs, idx + 1, size,
            IF signs[idx + 1] # signs[idx]
            THEN Append(acc, << Values[idx], Values[idx + 1] >>)
            ELSE acc)

\* the loop of find_bounds: range(1, signs[1:].size)
FindBoundsRun(f) == FindBoundsLoop(Signs(f), 1, Len(Values) - 1, << >>)

MaxRoots == 2

Roots ==
    { 0 - 500000, 0 - 100, 0 - 1, 0, 5, 100, 500, 100000, 500000, 1000000 }

\* the functions searched: a sign and up to MaxRoots roots in ascending order
Funcs ==
    { [ lead |-> a, roots |-> r ] :
        a \in { 0 - 1, 1 },
        r \in { q \in UNION { [1..n -> Roots] : n \in 0..MaxRoots } :
                  \A i \in 1..(Len(q) - 1) : q[i] <= q[i + 1] } }

BoundsInit ==
    /\ func \in Funcs
    /\ changes = << >>
    /\ bpc = "ready"

FindBounds ==
    /\ bpc = "ready"
    /\ changes' = FindBoundsRun(func)
    /\ bpc' = "done"
    /\ UNCHANGED << func, unitsVars, stoichVars, solverVars >>

InitBounds == UnitsIdle /\ BoundsInit /\ StoichIdle /\ SolversIdle

NextBounds == FindBounds

SpecBounds == InitBounds /\ [][NextBounds]_vars

\* the adjacent pairs of the grid, lowest first
AdjacentPairs == [ i \in 1..(Len(Values) - 1) |-> << Values[i], Values[i + 1] >> ]

DiffersAcross(pair) ==
    SignOfProduct(func.lead, func.roots, pair[1])
        # SignOfProduct(func.lead, func.roots, pair[2])

\* C2: find_bounds returns, in ascending order, exactly the adjacent pairs
\* of the grid -10^6 .. 10^6 across which the sign of func differs, from
\* (-10^6, -10^5) up to (10^5, 10^6), and no other pair.
C2_EveryAdjacentSignChange ==
    bpc = "done" => changes = SelectSeq(AdjacentPairs, DiffersAcross)

\* the returned brackets that enclose x, endpoints included
BracketsAround(x) ==
    { i \in 1..Len(changes) : changes[i][1] <= x /\ x <= changes[i][2] }

\* C17: the brackets find_bounds returns isolate distinct roots: no root
\* of func lies in, or is an endpoint of, more than one returned bracket,
\* a root at a grid point such as 0 or 100 included.
C17_BracketsIsolateRoots ==
    bpc = "done" =>
        \A i \in 1..Len(func.roots) :
            Cardinality(BracketsAround(func.roots[i])) <= 1

\* ------------------------------------------------------------------------
\* stoichiometry.py : REGEX and the parsing helpers of Stoichiometry
\* ------------------------------------------------------------------------

\* index of the first / last occurrence of character c in s, 0 when absent
FirstIndex(s, c) ==
    IF \E i \in 1..Len(s) : s[i] = c
    THEN CHOOSE i \in 1..Len(s) : s[i] = c /\ \A j \in 1..(i - 1) : s[j] # c
    ELSE 0

LastIndex(s, c) ==
    IF \E i \in 1..Len(s) : s[i] = c
    THEN CHOOSE i \in 1..Len(s) : s[i] = c /\ \A j \in (i + 1)..Len(s) : s[j] # c
    ELSE 0

\* REGEX["groups"] = \((.*)\)([0-9]*) matches at most once in a line: the
\* search starts at the first "(", the greedy .* runs to the last ")" of
\* the string, and the digits after it are the count.
GroupsFound(s) ==
    FirstIndex(s, "(") > 0 /\ LastIndex(s, ")") > FirstIndex(s, "(")

\* multiplier = 1 if count == "" else int(count)
Multiplier(count) == IF count = << >> THEN 1 ELSE IntOf(count)

RECURSIVE UnpackGroups(_)

\* REGEX["groups"].sub(elements * multiplier, input_str) for the match that
\* opens at a and closes at b
UnpackSub(s, a, b) ==
    Slice(s, 1, a - 1)
        \o Repeat(UnpackGroups(Slice(s, a + 1, b - 1)),
                  Multiplier(Slice(s, b + 1, SkipRun(s, b + 1, Digits) - 1)))
        \o From(s, SkipRun(s, b + 1, Digits))

\* _unpack_input_eq_groups(input_str)
UnpackGroups(input_str) ==
    IF GroupsFound(input_str)
    THEN UnpackSub(input_str, FirstIndex(input_str, "("), LastIndex(input_str, ")"))
    ELSE input_str

RECURSIVE ElementsFindall(_, _)

\* one match of REGEX["elements"] = ([A-Z][a-z]?)([0-9]*) at p, its name
\* ending before q, and the matches after it
ElementsAt(s, p, q) ==
    << << Slice(s, p, q - 1), Slice(s, q, SkipRun(s, q, Digits) - 1) >> >>
        \o ElementsFindall(s, SkipRun(s, q, Digits))

\* REGEX["elements"].findall(s), searching from position p
ElementsFindall(s, p) ==
    IF p > Len(s) THEN << >>
    ELSE IF s[p] \in Upper THEN ElementsAt(s, p, SkipOpt(s, p + 1, Lower))
    ELSE ElementsFindall(s, p + 1)

\* REGEX["molecules"].findall(s) = ([A-Za-z0-9]+), searching from position p
RECURSIVE MoleculesFindall(_, _)
MoleculesFindall(s, p) ==
    IF p > Len(s) THEN << >>
    ELSE IF s[p] \in Letters \cup Digits
    THEN << Slice(s, p, SkipRun(s, p, Letters \cup Digits) - 1) >>
            \o MoleculesFindall(s, SkipRun(s, p, Letters \cup Digits))
    ELSE MoleculesFindall(s, p + 1)

\* s.split(c) for a one-character separator
RECURSIVE Split(_, _)
Split(s, c) ==
    IF FirstIndex(s, c) = 0 THEN << s >>
    ELSE << Slice(s, 1, FirstIndex(s, c) - 1) >>
            \o Split(From(s, FirstIndex(s, c) + 1), c)

\* the keys of {element: [] for element, _ in findall}: first appearances
RECURSIVE DictKeys(_, _)
DictKeys(pairs, acc) ==
    IF pairs = << >> THEN acc
    ELSE DictKeys(Tail(pairs),
            IF \E i \in 1..Len(acc) : acc[i] = Head(pairs)[1]
            THEN acc
            ELSE Append(acc, Head(pairs)[1]))

\* count = 1.0 if v == "" else float(v)
ElementCount(v) == IF v = << >> THEN 1 ELSE IntOf(v)

\* a composition entry that replaces the stored count
CompositionOverwrite(old, count) == count

\* composition[k] after "if composition.get(k): += count, else: = count";
\* old is 0 when k is absent (get returns None) or stored as 0.0
CompositionPut(old, count) == IF old # 0 THEN old + count ELSE count

\* composition.get(element, 0.0) after the loop over findall(molecule)
RECURSIVE CompositionGet(_, _, _)
CompositionGet(pairs, element, acc) ==
    IF pairs = << >> THEN acc
    ELSE CompositionGet(Tail(pairs), element,
            IF Head(pairs)[1] = element
            THEN CompositionPut(acc, ElementCount(Head(pairs)[2]))
            ELSE acc)

\* _get_element_coeff_matrix(eq_side): rows with one entry appended per
\* molecule, negated when _eq_side_is_product
RECURSIVE GetElementCoeffMatrix(_, _, _, _)
GetElementCoeffMatrix(keys, rows, eq_side, is_product) ==
    IF eq_side = << >> THEN rows
    ELSE GetElementCoeffMatrix(keys,
            [ k \in 1..Len(keys) |->
                Append(rows[k],
                       (IF is_product THEN 0 - 1 ELSE 1)
                         * CompositionGet(ElementsFindall(Head(eq_side), 1),
                                          keys[k], 0)) ],
            Tail(eq_side), is_product)

\* _validate_elemental_balance: the first row with no positive or no
\* negative entry, 0 when every element is on both sides
RowUnbalanceable(row) ==
    \/ \A i \in 1..Len(row) : ~(row[i] > 0)
    \/ \A i \in 1..Len(row) : ~(row[i] < 0)

ValidateElementalBalance(rows) ==
    IF \E k \in 1..Len(rows) : RowUnbalanceable(rows[k])
    THEN CHOOSE k \in 1..Len(rows) :
            /\ RowUnbalanceable(rows[k])
            /\ \A j \in 1..(k - 1) : ~RowUnbalanceable(rows[j])
    ELSE 0

\* ------------------------------------------------------------------------
\* stoichiometry.py : Stoichiometry.__init__, balance_equation, _format_result
\* ------------------------------------------------------------------------

EmptyRows(keys) == [ k \in 1..Len(keys) |-> << >> ]

NoMolecules == [ reactants |-> << >>, products |-> << >> ]

\* __init__ after both sides are in the matrix: _validate_elemental_balance
InitValidate(u, keys, reactants, products, rows) ==
    [ unpacked |-> u,
      element_balance |-> [ keys |-> keys, rows |-> rows ],
      molecules |-> [ reactants |-> reactants, products |-> products ],
      serror |-> IF ValidateElementalBalance(rows) # 0
                 THEN "UnbalanceableElement"
                 ELSE "none" ]

\* __init__: for side in (reactants, products): _get_element_coeff_matrix
InitMatrix(u, keys, reactants, products) ==
    InitValidate(u, keys, reactants, products,
        GetElementCoeffMatrix(keys,
            GetElementCoeffMatrix(keys, EmptyRows(keys), reactants, FALSE),
            products, TRUE))

\* __init__: reactants, products = [... for side in input_eq.split(">")]
\* raises ValueError unless the split has exactly two parts
InitSplit(u, keys, sides) ==
    IF Len(sides) # 2
    THEN [ unpacked |-> u,
           element_balance |-> [ keys |-> keys, rows |-> EmptyRows(keys) ],
           molecules |-> NoMolecules,
           serror |-> "ValueError" ]
    ELSE InitMatrix(u, keys, MoleculesFindall(sides[1], 1),
                             MoleculesFindall(sides[2], 1))

\* __init__ from the unpacked equation on
InitUnpacked(u) ==
    InitSplit(u, DictKeys(ElementsFindall(u, 1), << >>), Split(u, ">"))

\* __init__ up to the call of balance_equation
InitFront(eq) ==
    IF FirstIndex(eq, ">") = 0
    THEN [ unpacked |-> << >>,
           element_balance |-> [ keys |-> << >>, rows |-> << >> ],
           molecules |-> NoMolecules,
           serror |-> "MissingDirectionMarker" ]
    ELSE InitUnpacked(UnpackGroups(eq))

MaxCoeff == 11

RECURSIVE Dot(_, _, _)
Dot(row, x, i) ==
    IF i > Len(row) THEN 0 ELSE row[i] * x[i] + Dot(row, x, i + 1)

\* |A x|^2, twice the cost of lsq_linear
RECURSIVE Cost2(_, _, _)
Cost2(A, x, k) ==
    IF k > Len(A) THEN 0
    ELSE Dot(A[k], x, 1) * Dot(A[k], x, 1) + Cost2(A, x, k + 1)

MinOf(S) == CHOOSE m \in S : \A k \in S : m <= k

\* the vectors with every entry >= 1 the solver searches
Grid(n) == [ 1..n -> 1..MaxCoeff ]

Minimisers(A, n, least) == { x \in Grid(n) : Cost2(A, x, 1) = least }

\* lsq_linear(all_coeff, zeros, bounds=(1, inf)).x : any vector within the
\* bounds that minimises |A x|^2
LsqLinear(A, n) ==
    IF \E x \in Grid(n) : Cost2(A, x, 1) = 0
    THEN Minimisers(A, n, 0)
    ELSE Minimisers(A, n, MinOf({ Cost2(A, x, 1) : x \in Grid(n) }))

\* a tolerance test that accepts every result
CostNeverExceeds(cost2) == FALSE

\* result.cost > SOLUTION_TOLERANCE, for the integer 2 * cost
CostExceedsTolerance(cost2) == cost2 > 0

\* round(num / den), ties to even
RoundHalfEven(num, den) ==
    IF 2 * (num % den) < den THEN num \div den
    ELSE IF 2 * (num % den) > den THEN (num \div den) + 1
    ELSE IF (num \div den) % 2 = 0 THEN num \div den
    ELSE (num \div den) + 1

\* coefficients in hundredths, without the division by the minimum
RoundOnly(x, min_coeff) == [ i \in 1..Len(x) |-> 100 * x[i] ]

\* if min_coeff > 1: x *= 1 / min_coeff; x.round(2), in hundredths
NormaliseAndRound(x, min_coeff) ==
    [ i \in 1..Len(x) |->
        IF min_coeff > 1 THEN RoundHalfEven(100 * x[i], min_coeff)
        ELSE 100 * x[i] ]

\* balance_equation after a solve within tolerance
BalanceEquation(x) ==
    NormaliseAndRound(x, MinOf({ x[i] : i \in 1..Len(x) }))

\* str() of the float h / 100 : "2.0", "7.5", "2.33", "1.05"
FloatStr(h) ==
    NatStr(h \div 100) \o << "." >>
        \o (IF h % 10 = 0 THEN << DigitChar((h % 100) \div 10) >>
            ELSE << DigitChar((h % 100) \div 10), DigitChar(h % 10) >>)

\* _format_result(eq_side) with coeff already cut to the side
FormatResult(coeff, eq_side) ==
    ReplaceAll(
        Join(<< " ", "+", " " >>,
             [ i \in 1..Min2(Len(coeff), Len(eq_side)) |->
                 FloatStr(coeff[i]) \o << " " >> \o eq_side[i] ]),
        << "1", ".", "0", " " >>, << >>)

\* " --> ".join(_format_result(side) for side in (reactants, products))
ResultOf(coeff, mol) ==
    FormatResult(coeff, mol.reactants)
        \o << " ", "-", "-", ">", " " >>
        \o FormatResult(From(coeff, Len(mol.reactants) + 1), mol.products)

\* ------------------------------------------------------------------------
\* Stoichiometry(input_eq) on a family of reaction strings
\* ------------------------------------------------------------------------

\* molecules that are combined two to a side
SimpleMolecules ==
    << << "H", "2" >>,
       << "O", "2" >>,
       << "H", "2", "O" >>,
       << "C", "O", "2" >> >>

\* molecules that stand alone on a side: larger counts, one group, two
\* groups, nested groups
SingleMolecules ==
    { << "C", "7", "H", "1", "6" >>,
      << "S", "6" >>,
      << "S", "8" >>,
      << "H", "(", "O", "H", ")" >>,
      << "O", "(", "H", ")", "2" >>,
      << "C", "a", "(", "O", "H", ")", "2" >>,
      << "(", "H", ")", "(", "O", "H", ")" >>,
      << "(", "(", "H", ")", "2", "O", ")", "2" >> }

Plus == << " ", "+", " " >>

\* the sides of the equations: one molecule, or two joined by " + "
Sides ==
    { SimpleMolecules[i] : i \in DOMAIN SimpleMolecules } \cup SingleMolecules
        \cup { SimpleMolecules[ij[1]] \o Plus \o SimpleMolecules[ij[2]] :
                  ij \in { q \in (DOMAIN SimpleMolecules) \X (DOMAIN SimpleMolecules) :
                             q[1] < q[2] } }
        \cup { << "C", "7", "H", "1", "6" >> \o Plus \o << "O", "2" >> }

\* with and without the ">" that marks the direction
Markers == { << " ", "-", "-", ">", " " >>, << " ", "=", " " >> }

Equations == { r \o m \o p : r \in Sides, m \in Markers, p \in Sides }

StoichInit ==
    /\ input_eq \in Equations
    /\ unpacked = << >>
    /\ element_balance = [ keys |-> << >>, rows |-> << >> ]
    /\ molecules = NoMolecules
    /\ balance = << >>
    /\ result = << >>
    /\ spc = "ready"
    /\ serror = "none"

\* the constructor ended by an exception before the solve
InitRaises(front, error) ==
    /\ unpacked' = front.unpacked
    /\ element_balance' = front.element_balance
    /\ molecules' = front.molecules
    /\ balance' = << >>
    /\ result' = << >>
    /\ serror' = error

\* balance_equation and the formatting of the result for the vector x the
\* solver returned
InitSolved(front, x) ==
    /\ unpacked' = front.unpacked
    /\ element_balance' = front.element_balance
    /\ molecules' = front.molecules
    /\ IF CostExceedsTolerance(Cost2(front.element_balance.rows, x, 1))
       THEN /\ balance' = << >>
            /\ result' = << >>
            /\ serror' = "NoBalancedSolution"
       ELSE /\ balance' = BalanceEquation(x)
            /\ result' = ResultOf(BalanceEquation(x), front.molecules)
            /\ serror' = "none"

\* Stoichiometry.__init__(input_eq)
StoichiometryInit ==
    /\ spc = "ready"
    /\ \E front \in { InitFront(input_eq) } :
          IF front.serror # "none"
          THEN InitRaises(front, front.serror)
          ELSE IF front.element_balance.keys = << >>
          THEN InitRaises(front, "ValueError")
          ELSE \E x \in LsqLinear(front.element_balance.rows,
                                  Len(front.molecules.reactants)
                                      + Len(front.molecules.products)) :
                  InitSolved(front, x)
    /\ spc' = "done"
    /\ UNCHANGED << input_eq, unitsVars, boundsVars, solverVars >>

InitStoich == UnitsIdle /\ BoundsIdle /\ StoichInit /\ SolversIdle

NextStoich == StoichiometryInit

SpecStoich == InitStoich /\ [][NextStoich]_vars

\* ------------------------------------------------------------------------
\* Stoichiometry(input_eq) on reaction strings that carry coefficients
\* ------------------------------------------------------------------------

\* what is written in front of a molecule: nothing, "2", or "2 "
Prefixes == { << >>, << "2" >>, << "2", " " >> }

Arrow == << " ", "-", "-", ">", " " >>

\* one molecule a side, and H2 + O2 --> H2O, every molecule with a prefix
\* (at most one of the three with a space after the coefficient)
CoeffEquations ==
    { p[1] \o SimpleMolecules[m[1]] \o Arrow \o p[2] \o SimpleMolecules[m[2]] :
        p \in Prefixes \X Prefixes, m \in (1..3) \X (1..3) }
    \cup
    { p[1] \o SimpleMolecules[1] \o Plus \o p[2] \o SimpleMolecules[2]
          \o Arrow \o p[3] \o SimpleMolecules[3] :
        p \in { q \in Prefixes \X Prefixes \X Prefixes :
                  Cardinality({ i \in 1..3 : Len(q[i]) = 2 }) <= 1 } }

CoeffInit ==
    /\ input_eq \in CoeffEquations
    /\ unpacked = << >>
    /\ element_balance = [ keys |-> << >>, rows |-> << >> ]
    /\ molecules = NoMolecules
    /\ balance = << >>
    /\ result = << >>
    /\ spc = "ready"
    /\ serror = "none"

InitCoeffs == UnitsIdle /\ BoundsIdle /\ CoeffInit /\ SolversIdle

NextCoeffs == StoichiometryInit

SpecCoeffs == InitCoeffs /\ [][NextCoeffs]_vars

\* ------------------------------------------------------------------------
\* base_solver.py : Solver ; fluids.py : Fluids
\* ------------------------------------------------------------------------

UNKNOWN == << "u", "n", "k", "n", "o", "w", "n" >>

\* the objects that exist: Units sessions and solvers, known by index
Heap == [ registry |-> registry, solvers |-> solvers ]

\* Units() : a new session with the default ceiling
UnitsNew(reg) == Append(reg, [ sigfigs |-> MAX_SIGFIGS ])

\* a constructor that hands every solver the first session ever made
SharedUnitsRef(reg) == 1

\* self.unit_registry = Units() : the session just created, the last of reg
NewUnitsRef(reg) == Len(reg)

\* Solver.__init__(units_out=None)
SolverNew(h) ==
    [ registry |-> UnitsNew(h.registry),
      solvers  |-> Append(h.solvers,
                     [ unit_registry |-> NewUnitsRef(UnitsNew(h.registry)),
                       units_out     |-> "None",
                       unknown       |-> "",
                       solutions     |-> << >>,
                       initial       |-> << >>,
                       final         |-> << >> ]) ]

\* a marker that is kept once it is set
MarkUnknownOnce(old, parameter) == IF old = "" THEN parameter ELSE old

\* self.unknown = parameter
MarkUnknown(old, parameter) == parameter

\* _convert_units when value is no marker: unit_converter on the solver's
\* own session; r is its outcome
ConvertUnitsEnd(h, i, r) ==
    [ h      |-> [ h EXCEPT !.registry[h.solvers[i].unit_registry].sigfigs
                                = r.sigfigs ],
      status |-> r.status,
      ret    |-> IF r.status = "ok" THEN r.quantity.magnitude ELSE None ]

\* solver i ._convert_units(parameter, value): the objects afterwards, the
\* outcome and the value returned
ConvertUnitsRun(h, i, parameter, value) ==
    IF value = UNKNOWN
    THEN [ h      |-> [ h EXCEPT !.solvers[i].unknown
                                     = MarkUnknown(@, parameter) ],
           status |-> "ok",
           ret    |-> [ text |-> UNKNOWN ] ]
    ELSE ConvertUnitsEnd(h, i,
            UnitConverterRun(h.registry[h.solvers[i].unit_registry].sigfigs,
                             value))

\* {k: self._convert_units(k, v) for k, v in items}: the items in their
\* order, ended by the first conversion that raises
RECURSIVE BindParameters(_, _, _, _)
BindParameters(h, i, items, acc) ==
    IF items = << >> THEN [ h |-> h, status |-> "ok", dict |-> acc ]
    ELSE Bind(ConvertUnitsRun(h, i, items[1][1], items[1][2]), LAMBDA r :
           IF r.status # "ok"
           THEN [ h |-> r.h, status |-> r.status, dict |-> acc ]
           ELSE BindParameters(r.h, i, Tail(items),
                               Append(acc, << items[1][1], r.ret >>)))

\* Fluids.__init__ : self.final = ... , after self.initial was bound
FluidsFinal(first, i, final) ==
    IF first.status # "ok" THEN [ h |-> first.h, status |-> first.status ]
    ELSE Bind(BindParameters([ first.h EXCEPT !.solvers[i].initial = first.dict ],
                             i, final, << >>), LAMBDA second :
           IF second.status # "ok"
           THEN [ h |-> second.h, status |-> second.status ]
           ELSE [ h |-> [ second.h EXCEPT !.solvers[i].final = second.dict ],
                  status |-> "ok" ])

\* Fluids(initial, final): super().__init__(), self.initial, self.final
FluidsNew(h, initial, final) ==
    Bind(SolverNew(h), LAMBDA h1 :
      FluidsFinal(BindParameters(h1, Len(h1.solvers), initial, << >>),
                  Len(h1.solvers), final))

\* ------------------------------------------------------------------------
\* Fluids(initial, final) on a family of parameter dicts
\* ------------------------------------------------------------------------

MaxParams == 2

Parameters == { "v", "P", "h" }

\* the marker, a quantity, a quantity in an unknown unit, a quantity
\* whose unit expression cannot be built
ParamValues ==
    { UNKNOWN, << "1", "2", " ", "m" >>, << "1", " ", "s", "s" >>,
      << "1", " ", "(", "m" >> }

\* dicts of up to MaxParams items: distinct keys, in insertion order
ParamMaps ==
    { d \in UNION { [ 1..n -> Parameters \X ParamValues ] : n \in 0..MaxParams } :
        \A i \in 1..Len(d) : \A j \in 1..Len(d) : i # j => d[i][1] # d[j][1] }

\* Fluids(initial, final): the object exists when the constructor returns
FluidsInit ==
    /\ scall.op = "none"
    /\ \E initial \in ParamMaps : \E final \in ParamMaps :
          \E r \in { FluidsNew(Heap, initial, final) } :
              /\ registry' = IF r.status = "ok" THEN r.h.registry ELSE registry
              /\ solvers' = IF r.status = "ok" THEN r.h.solvers ELSE solvers
              /\ scall' = [ op |-> "Fluids", self |-> Len(solvers) + 1,
                            args |-> << initial, final >>,
                            status |-> r.status ]
    /\ UNCHANGED << unitsVars, boundsVars, stoichVars >>

InitFluids == UnitsIdle /\ BoundsIdle /\ StoichIdle /\ SolversIdle

NextFluids == FluidsInit

SpecFluids == InitFluids /\ [][NextFluids]_vars

\* ------------------------------------------------------------------------
\* fluids.py : Fluids.bernoulli ; base_solver.py : _add_units,
\* _round_to_sigfigs
\* ------------------------------------------------------------------------

\* the attributes of FluidsEq.units
FluidsUnits == { "h", "G", "P", "rho", "v" }

\* the fields of FluidsEq.bernoulli
BernoulliFields == { "rho", "v", "h", "P" }

HasKey(d, k) == \E i \in 1..Len(d) : d[i][1] = k

Lookup(d, k) == d[CHOOSE i \in 1..Len(d) : d[i][1] = k][2]

IsMarker(x) == x = [ text |-> UNKNOWN ]

\* the float x as an integer, for x = mant * 10^exp with exp >= 0
IntegerOf(x) == (IF x.neg THEN 0 - 1 ELSE 1) * x.mant * Pow10(x.exp)

\* The equations whose function is modelled: rho, v and h are the same
\* numbers on both sides and P is the marker on one side and a whole
\* number on the other, so that
\*   func(unknown) = (c + unknown) - (c + P)   or   (c + P) - (c + unknown)
\* is zero exactly at P and has the sign of +-(unknown - P) elsewhere.
PressureEquation(s) ==
    /\ \A k \in BernoulliFields : HasKey(s.initial, k) /\ HasKey(s.final, k)
    /\ \A k \in { "rho", "v", "h" } :
          /\ ~IsMarker(Lookup(s.initial, k))
          /\ Lookup(s.initial, k) = Lookup(s.final, k)
    /\ IsMarker(Lookup(s.initial, "P")) # IsMarker(Lookup(s.final, "P"))
    /\ \A d \in { s.initial, s.final } :
          ~IsMarker(Lookup(d, "P")) => Lookup(d, "P").exp >= 0

\* func = eval("lambda unknown: <initial> - (<final>)") of such an equation
BernoulliFunc(s) ==
    IF IsMarker(Lookup(s.initial, "P"))
    THEN [ lead |-> 1, roots |-> << IntegerOf(Lookup(s.final, "P")) >> ]
    ELSE [ lead |-> 0 - 1, roots |-> << IntegerOf(Lookup(s.initial, "P")) >> ]

\* brentq(func, lwr, upr): the root of func within the bracket
Brentq(f, pair) ==
    CHOOSE r \in { f.roots[i] : i \in 1..Len(f.roots) } :
        pair[1] <= r /\ r <= pair[2]

\* math.floor(math.log10(x)) for an integer x >= 1
RECURSIVE FloorLog10(_)
FloorLog10(x) == IF x < 10 THEN 0 ELSE 1 + FloorLog10(x \div 10)

\* x.round(decimals) for an integer x: ties to even
RoundTo(x, decimals) ==
    IF decimals >= 0 THEN x
    ELSE Sign(x) * RoundHalfEven(Abs(x), Pow10(0 - decimals))
                 * Pow10(0 - decimals)

\* _round_to_sigfigs(x) with n = None: n becomes the session's sigfigs
RoundToSigfigs(x, sf) == RoundTo(x, (0 - FloorLog10(Abs(x))) + (sf - 1))

\* the loop of bernoulli over the roots: self.solutions.append(
\* self._add_units(root, FluidsEq.units)), ended by the first exception
RECURSIVE AppendSolutions(_, _, _, _)
AppendSolutions(roots, unknown, sf, acc) ==
    IF roots = << >> THEN [ status |-> "ok", solutions |-> acc ]
    ELSE IF unknown \notin FluidsUnits
    THEN [ status |-> "AttributeError", solutions |-> acc ]
    ELSE IF Head(roots) = 0
    THEN \* math.log10(0)
         [ status |-> "ValueError", solutions |-> acc ]
    ELSE AppendSolutions(Tail(roots), unknown, sf,
            Append(acc, [ value |-> RoundToSigfigs(Head(roots), sf),
                          units |-> unknown ]))

\* bernoulli once func is built: find_bounds, brentq on every bracket,
\* self.solutions = [] and the loop
BernoulliSolve(f, bounds, unknown, sf) ==
    AppendSolutions([ i \in 1..Len(bounds) |-> Brentq(f, bounds[i]) ],
                    unknown, sf, << >>)

\* bernoulli() of solver s whose session counts sf figures
BernoulliRun(s, sf) ==
    IF \E k \in BernoulliFields : ~HasKey(s.initial, k) \/ ~HasKey(s.final, k)
    THEN \* str.format(**dict) without one of its fields
         [ status |-> "KeyError", solutions |-> s.solutions ]
    ELSE BernoulliSolve(BernoulliFunc(s), FindBoundsRun(BernoulliFunc(s)),
                        s.unknown, sf)

\* ------------------------------------------------------------------------
\* Two Fluids objects, calls on either in any order
\* ------------------------------------------------------------------------

\* a complete dict with pressure p
WithPressure(p) ==
    << << "rho", << "1", ".", "0", "0", " ", "m" >> >>,
       << "v", << "1", "2", ".", "0", " ", "m" >> >>,
       << "h", << "1", ".", "0", "0", " ", "m" >> >>,
       << "P", p >> >>

\* the constructor arguments: the initial pressure unknown (root on the
\* grid), the final pressure unknown (root off the grid), empty dicts
SolverArgs ==
    { << WithPressure(UNKNOWN),
         WithPressure(<< "1", "0", "0", ".", "0", " ", "m" >>) >>,
      << WithPressure(<< "5", "0", "0", ".", "0", " ", "m" >>),
         WithPressure(UNKNOWN) >>,
      << << >>, << >> >> }

\* the values later calls hand in
ConvertValues ==
    { UNKNOWN, << "1", "2", " ", "m" >>, << "0", " ", "m" >> }

ConverterInputs ==
    { << "1", "2", " ", "m" >>, << "1", " ", "s", "s" >> }

\* a = Fluids(...); b = Fluids(...)
SolversInit ==
    /\ \E a \in SolverArgs : \E b \in SolverArgs :
          \E h \in { FluidsNew(FluidsNew([ registry |-> << >>, solvers |-> << >> ],
                                         a[1], a[2]).h,
                               b[1], b[2]).h } :
              /\ registry = h.registry
              /\ solvers = h.solvers
    /\ scall = [ op |-> "none", self |-> 0, args |-> << >>, status |-> "none" ]

\* solver i ._convert_units(parameter, value)
SolverConvertUnits ==
    /\ \E i \in 1..Len(solvers) : \E parameter \in { "P", "v" } :
          \E value \in ConvertValues :
              \E r \in { ConvertUnitsRun(Heap, i, parameter, value) } :
                  /\ registry' = r.h.registry
                  /\ solvers' = r.h.solvers
                  /\ scall' = [ op |-> "_convert_units", self |-> i,
                                args |-> << >>, status |-> r.status ]
    /\ UNCHANGED << unitsVars, boundsVars, stoichVars >>

\* solver i .unit_registry.unit_converter(input_str)
SolverUnitConverter ==
    /\ \E i \in 1..Len(solvers) : \E input_str \in ConverterInputs :
          \E r \in { UnitConverterRun(registry[solvers[i].unit_registry].sigfigs,
                                      input_str) } :
              /\ registry' = [ registry EXCEPT
                                 ![solvers[i].unit_registry].sigfigs = r.sigfigs ]
              /\ scall' = [ op |-> "unit_converter", self |-> i,
                            args |-> << >>, status |-> r.status ]
    /\ UNCHANGED << solvers, unitsVars, boundsVars, stoichVars >>

\* solver i .bernoulli()
SolverBernoulli ==
    /\ \E i \in 1..Len(solvers) :
          /\ PressureEquation(solvers[i])
                \/ \E k \in BernoulliFields : ~HasKey(solvers[i].initial, k)
          /\ \E r \in { BernoulliRun(solvers[i],
                                     registry[solvers[i].unit_registry].sigfigs) } :
                /\ solvers' = [ solvers EXCEPT ![i].solutions = r.solutions ]
                /\ scall' = [ op |-> "bernoulli", self |-> i,
                              args |-> << >>, status |-> r.status ]
    /\ UNCHANGED << registry, unitsVars, boundsVars, stoichVars >>

InitSolvers == UnitsIdle /\ BoundsIdle /\ StoichIdle /\ SolversInit

NextSolvers ==
    \/ SolverConvertUnits
    \/ SolverUnitConverter
    \/ SolverBernoulli

SpecSolvers == InitSolvers /\ [][NextSolvers]_vars

\* ------------------------------------------------------------------------
\* Properties of Stoichiometry
\* ------------------------------------------------------------------------

\* an element symbol starts at every upper-case letter of a formula
SymbolAt(m, p) ==
    IF p < Len(m) /\ m[p + 1] \in Lower THEN << m[p], m[p + 1] >> ELSE << m[p] >>

\* the count written after the symbol at p, 1 when none is written
CountAt(m, p) ==
    LET q == p + Len(SymbolAt(m, p))
        d == Slice(m, q, q + RunLen(m, q, Digits) - 1)
    IN  IF d = << >> THEN 1 ELSE IntOf(d)

Symbols(m) == { SymbolAt(m, p) : p \in { q \in 1..Len(m) : m[q] \in Upper } }

\* atoms of element e in formula m: the counts of all its occurrences
RECURSIVE AtomsFrom(_, _, _)
AtomsFrom(e, m, p) ==
    IF p > Len(m) THEN 0
    ELSE (IF m[p] \in Upper /\ SymbolAt(m, p) = e THEN CountAt(m, p) ELSE 0)
            + AtomsFrom(e, m, p + 1)

Atoms(e, m) == AtomsFrom(e, m, 1)

Accepted == spc = "done" /\ serror = "none"

AllMolecules == molecules.reactants \o molecules.products

\* +1 for the reactant columns, -1 for the product columns
Side(i) == IF i <= Len(molecules.reactants) THEN 1 ELSE 0 - 1

RECURSIVE SumTo(_, _)
SumTo(f, n) == IF n = 0 THEN 0 ELSE f[n] + SumTo(f, n - 1)

\* reactant atoms minus product atoms of element e, in hundredths
Imbalance(e) ==
    SumTo([ i \in 1..Len(AllMolecules) |->
              Side(i) * balance[i] * Atoms(e, AllMolecules[i]) ],
          Len(AllMolecules))

TotalAtoms(e) ==
    SumTo([ i \in 1..Len(AllMolecules) |-> Atoms(e, AllMolecules[i]) ],
          Len(AllMolecules))

\* C3: for every accepted reaction string the stored balance conserves
\* every element: reactant atoms equal product atoms up to the half
\* hundredth per coefficient that rounding to 2 decimals introduces.
C3_BalanceConservesElements ==
    Accepted =>
        /\ Len(balance) = Len(AllMolecules)
        /\ \A i \in 1..Len(AllMolecules) :
              \A e \in Symbols(AllMolecules[i]) :
                  2 * Abs(Imbalance(e)) <= TotalAtoms(e)

\* C3 witness: an accepted equation with a coefficient that was rounded
C3_Witness ==
    /\ Accepted
    /\ \E i \in 1..Len(balance) : balance[i] % 10 # 0

\* C4: for every accepted reaction string every coefficient is >= 1 and
\* the smallest coefficient is exactly 1, whichever vector the solver returns.
C4_MinimumCoefficientIsOne ==
    Accepted =>
        /\ \A i \in 1..Len(balance) : balance[i] >= 100
        /\ \E i \in 1..Len(balance) : balance[i] = 100

\* C4 witness: an accepted equation whose coefficients were divided by a
\* minimum above 1, leaving a half-integer coefficient
C4_Witness ==
    /\ Accepted
    /\ \E i \in 1..Len(balance) : balance[i] % 100 = 50

\* a molecule with its coefficient text, bare when the coefficient is 1.0
Rendered(i) ==
    IF balance[i] = 100 THEN AllMolecules[i]
    ELSE FloatStr(balance[i]) \o << " " >> \o AllMolecules[i]

RenderedSide(first, last) ==
    Join(Plus, [ i \in 1..(last - first + 1) |-> Rendered(first + i - 1) ])

\* C5: in the result every molecule is rendered as "<coeff> <molecule>"
\* with its complete coefficient text, the text being left out exactly
\* when the coefficient is 1.0.
C5_CoefficientTextUnaltered ==
    Accepted =>
        result = RenderedSide(1, Len(molecules.reactants))
                    \o << " ", "-", "-", ">", " " >>
                    \o RenderedSide(Len(molecules.reactants) + 1, Len(AllMolecules))

\* every ")" closes an earlier "(" and every "(" is closed
RECURSIVE Depth(_, _)
Depth(s, p) ==
    IF p = 0 THEN 0
    ELSE Depth(s, p - 1)
            + (IF s[p] = "(" THEN 1 ELSE IF s[p] = ")" THEN 0 - 1 ELSE 0)

BalancedParentheses(s) ==
    /\ \A p \in 1..Len(s) : Depth(s, p) >= 0
    /\ Depth(s, Len(s)) = 0

\* the "(" that the first ")" of s closes
OpeningOf(s, close) ==
    CHOOSE i \in 1..(close - 1) :
        s[i] = "(" /\ \A k \in (i + 1)..(close - 1) : s[k] # "("

\* every group replaced by its content repeated count times, innermost first
RECURSIVE Expanded(_)
Expanded(s) ==
    IF FirstIndex(s, ")") = 0 THEN s
    ELSE LET close == FirstIndex(s, ")")
             open == OpeningOf(s, close)
             after == close + 1 + RunLen(s, close + 1, Digits)
             count == Slice(s, close + 1, after - 1)
         IN  Expanded(Slice(s, 1, open - 1)
                        \o Repeat(Slice(s, open + 1, close - 1),
                                  IF count = << >> THEN 1 ELSE IntOf(count))
                        \o From(s, after))

\* C6: for every input with balanced parentheses the unpacked string has
\* no "(" or ")" and holds each group's content repeated by that group's
\* own count, for nested groups and for several separate groups alike.
C6_EveryGroupExpanded ==
    (spc = "done" /\ serror # "MissingDirectionMarker" /\ BalancedParentheses(input_eq))
        => /\ \A p \in 1..Len(unpacked) : unpacked[p] \notin { "(", ")" }
           /\ unpacked = Expanded(input_eq)

FirstStart(e, s) ==
    CHOOSE p \in 1..Len(s) :
        /\ s[p] \in Upper /\ SymbolAt(s, p) = e
        /\ \A q \in 1..(p - 1) : ~(s[q] \in Upper /\ SymbolAt(s, q) = e)

\* C7: after construction element_balance has one row per element in
\* order of first appearance in the expanded equation, one entry per
\* molecule in reactant-then-product order, each entry the total count of
\* the element in the molecule, positive for reactants, negative for
\* products, 0 when the element is absent.
C7_ElementBalanceMatrix ==
    Accepted =>
        LET keys == element_balance.keys
            rows == element_balance.rows
        IN  /\ { keys[k] : k \in 1..Len(keys) } = Symbols(unpacked)
            /\ Len(rows) = Len(keys)
            /\ \A a \in 1..Len(keys) : \A b \in 1..Len(keys) :
                  a < b => FirstStart(keys[a], unpacked) < FirstStart(keys[b], unpacked)
            /\ \A k \in 1..Len(keys) :
                  /\ Len(rows[k]) = Len(AllMolecules)
                  /\ \A i \in 1..Len(AllMolecules) :
                        rows[k][i] = Side(i) * Atoms(keys[k], AllMolecules[i])

\* C7 witness: an accepted equation with a molecule that repeats an element
\* and a molecule that lacks one
C7_Witness ==
    /\ Accepted
    /\ \E i \in 1..Len(AllMolecules) :
          \E p \in 1..Len(AllMolecules[i]) : \E q \in 1..Len(AllMolecules[i]) :
              /\ p < q
              /\ AllMolecules[i][p] \in Upper /\ AllMolecules[i][q] \in Upper
              /\ SymbolAt(AllMolecules[i], p) = SymbolAt(AllMolecules[i], q)
    /\ \E k \in 1..Len(element_balance.rows) :
          \E i \in 1..Len(AllMolecules) : element_balance.rows[k][i] = 0

\* some element is written on one side of the ">" only
OneSidedElement(eq) ==
    LET at == FirstIndex(eq, ">")
    IN  Symbols(Slice(eq, 1, at - 1)) # Symbols(From(eq, at + 1))

\* C8: a reaction string containing ">" in which some element occurs on
\* one side only fails with the not-present-on-both-sides error, never
\* with another failure and never with a result.
C8_OneSidedElementRejected ==
    (spc = "done" /\ FirstIndex(input_eq, ">") > 0 /\ OneSidedElement(input_eq))
        => serror = "UnbalanceableElement"

\* the equation without the coefficients written in front of its
\* molecules: a run of digits at the start or after a space, and the
\* spaces that follow it, left out
RECURSIVE StripCoefficients(_, _)
StripCoefficients(eq, p) ==
    IF p > Len(eq) THEN << >>
    ELSE IF eq[p] \in Digits /\ (p = 1 \/ eq[p - 1] = " ")
    THEN LET q == p + RunLen(eq, p, Digits)
         IN  StripCoefficients(eq, q + RunLen(eq, q, { " " }))
    ELSE << eq[p] >> \o StripCoefficients(eq, p + 1)

\* C13: coefficients written in front of molecules are ignored: the
\* parsed molecules and the element balance matrix are those of the same
\* equation written without coefficients.
C13_InputCoefficientsIgnored ==
    spc = "done" =>
        /\ molecules = InitFront(StripCoefficients(input_eq, 1)).molecules
        /\ element_balance
              = InitFront(StripCoefficients(input_eq, 1)).element_balance

\* ------------------------------------------------------------------------
\* Properties of the significant-figure count
\* ------------------------------------------------------------------------

\* the mantissa of a number: without its sign and its exponent suffix
MantissaOf(s) ==
    LET u == IF s # << >> /\ s[1] = "-" THEN Tail(s) ELSE s
        e == { i \in 1..Len(u) : u[i] \in { "e", "E" } }
    IN  IF e = {} THEN u
        ELSE Slice(u, 1, (CHOOSE i \in e : \A j \in e : i <= j) - 1)

\* its digits before and after the decimal point
IntegerDigits(m) ==
    IF \E i \in 1..Len(m) : m[i] = "."
    THEN Slice(m, 1, (CHOOSE i \in 1..Len(m) : m[i] = ".") - 1)
    ELSE m

FractionDigits(m) ==
    IF \E i \in 1..Len(m) : m[i] = "."
    THEN From(m, (CHOOSE i \in 1..Len(m) : m[i] = ".") + 1)
    ELSE << >>

\* the number of zeros s starts with / ends with
LeadingZeros(s) ==
    Cardinality({ i \in 1..Len(s) : \A j \in 1..i : s[j] = "0" })

TrailingZeros(s) ==
    Cardinality({ i \in 1..Len(s) : \A j \in i..Len(s) : s[j] = "0" })

\* the mantissa digits from the first nonzero digit on
DigitsFromFirstNonzero(s) ==
    LET d == IntegerDigits(MantissaOf(s)) \o FractionDigits(MantissaOf(s))
    IN  Len(d) - LeadingZeros(d)

\* the integer digits without leading zeros (and, when no digit follows
\* the point, without trailing zeros) plus every digit after the point
DigitsCounted(s) ==
    LET i == IntegerDigits(MantissaOf(s))
        f == FractionDigits(MantissaOf(s))
        kept == Len(i) - LeadingZeros(i)
    IN  IF f = << >>
        THEN (IF kept = 0 THEN 0 ELSE kept - TrailingZeros(i))
        ELSE kept + Len(f)

\* a call of count_sigfigs on a number, on a fresh session
CountedNumber ==
    ucall.op = "count_sigfigs" /\ IsNumber(ucall.arg)

\* C12 as claimed: for a number with a nonzero digit the count is the
\* number of mantissa digits from the first nonzero digit on: sign and
\* exponent ignored, leading zeros on either side of the point not
\* counted, trailing zeros after the point counted.
C12_LeadingZerosNotCounted ==
    (CountedNumber /\ DigitsFromFirstNonzero(ucall.arg) > 0)
        => sigfigs = Min2(ceiling, DigitsFromFirstNonzero(ucall.arg))

\* C12 amended: the count ignores the sign and the exponent suffix and
\* the leading zeros of the integer part; every digit after the decimal
\* point is counted, zeros before the first nonzero digit included;
\* trailing zeros of the integer part are not counted when no digit
\* follows the point.
C12_DigitsAfterPointAllCounted ==
    CountedNumber => sigfigs = Min2(ceiling, DigitsCounted(ucall.arg))

\* C12 witness: a number with a zero right after the point and a nonzero
\* digit behind it, all of its fraction digits counted
C12_Witness ==
    /\ CountedNumber
    /\ LeadingZeros(FractionDigits(MantissaOf(ucall.arg))) > 0
    /\ DigitsFromFirstNonzero(ucall.arg) > 0
    /\ sigfigs = Len(FractionDigits(MantissaOf(ucall.arg)))

\* C15: a unit_converter or _initial_parser call that ends in an error
\* leaves the session's sigfigs as it was before the call.
C15_FailedCallKeepsSigfigs ==
    [][ ( /\ ucall'.op \in { "unit_converter", "_initial_parser" }
          /\ ucall'.ret.status # "ok" )
            => sigfigs' = sigfigs ]_vars

\* C16: in a session with ceiling >= 1, parsing a well-formed number
\* (zero included) never takes sigfigs from at least 1 to below 1.
C16_SigfigsStayPositive ==
    [][ ( /\ ceiling >= 1
          /\ sigfigs >= 1
          /\ Counted(ucall') # << >>
          /\ IsNumber(Counted(ucall')[1]) )
            => sigfigs' >= 1 ]_vars

\* ------------------------------------------------------------------------
\* Properties of Solver and Fluids
\* ------------------------------------------------------------------------

\* the items of both dicts in the order the constructor binds them
BoundOrder == scall.args[1] \o scall.args[2]

Constructed == scall.op = "Fluids" /\ scall.status = "ok"

MarkedItems == { i \in 1..Len(BoundOrder) : BoundOrder[i][2] = UNKNOWN }

\* the name of the last parameter in that order whose value is the marker
LastMarked ==
    IF MarkedItems = {} THEN ""
    ELSE BoundOrder[CHOOSE i \in MarkedItems : \A j \in MarkedItems : j <= i][1]

\* how the conversion of each value ends
ConversionStatus ==
    [ v \in ParamValues \ { UNKNOWN } |-> UnitConverterRun(MAX_SIGFIGS, v).status ]

\* the items whose conversion raises
FailingItems ==
    { i \in 1..Len(BoundOrder) :
        /\ BoundOrder[i][2] # UNKNOWN
        /\ ConversionStatus[BoundOrder[i][2]] # "ok" }

\* item by item, d holds the keys of items and the marker where items does
BoundAs(d, items) ==
    /\ Len(d) = Len(items)
    /\ \A i \in 1..Len(items) :
          /\ d[i][1] = items[i][1]
          /\ (d[i][2] = [ text |-> UNKNOWN ]) <=> (items[i][2] = UNKNOWN)

\* C11: Fluids(initial, final) binds the parameters of initial, then those
\* of final, each in key order; a marker is stored unconverted; the
\* recorded unknown is the name of the last marked parameter in that
\* order, "" when none is marked; a conversion that raises ends the
\* constructor with the error of the first such parameter in that order.
C11_LastUnknownWins ==
    /\ Constructed =>
          /\ FailingItems = {}
          /\ solvers[scall.self].unknown = LastMarked
          /\ BoundAs(solvers[scall.self].initial, scall.args[1])
          /\ BoundAs(solvers[scall.self].final, scall.args[2])
    /\ (scall.op = "Fluids" /\ scall.status # "ok") =>
          LET failing == FailingItems
          IN  /\ failing # {}
              /\ solvers = << >>
              /\ scall.status =
                    ConversionStatus[
                        BoundOrder[CHOOSE i \in failing :
                                      \A j \in failing : i <= j][2]]

\* C11 witness: a marker in initial and one of another name in final, the
\* one in final recorded
C11_Witness ==
    /\ Constructed
    /\ \E i \in 1..Len(scall.args[1]) : \E j \in 1..Len(scall.args[2]) :
          /\ scall.args[1][i][2] = UNKNOWN
          /\ scall.args[2][j][2] = UNKNOWN
          /\ scall.args[1][i][1] # scall.args[2][j][1]
          /\ solvers[scall.self].unknown = scall.args[2][j][1]

\* the tracked sigfigs of solver j's session
SigfigsOf(reg, slv, j) == reg[slv[j].unit_registry].sigfigs

\* C14: each solver owns its own Units session: a call on one solver
\* (parameter binding, unit_converter on its session, bernoulli) leaves
\* every other solver's tracked sigfigs, unknown name and solutions as
\* they were, and no two solvers refer to the same session.
C14_SolversShareNoState ==
    /\ [](\A i \in 1..Len(solvers) : \A j \in 1..Len(solvers) :
             i # j => solvers[i].unit_registry # solvers[j].unit_registry)
    /\ [][ \A j \in 1..Len(solvers) :
             j # scall'.self =>
                /\ SigfigsOf(registry', solvers', j) = SigfigsOf(registry, solvers, j)
                /\ solvers'[j].unknown = solvers[j].unknown
                /\ solvers'[j].solutions = solvers[j].solutions ]_vars

\* C14 witness: a binding call on the first solver has lowered its
\* sigfigs and changed its unknown while the second solver, which holds
\* solutions, still has the higher count and its own unknown
C14_Witness ==
    /\ scall.op = "_convert_units"
    /\ scall.self = 1
    /\ SigfigsOf(registry, solvers, 1) < SigfigsOf(registry, solvers, 2)
    /\ solvers[1].unknown = "v"
    /\ solvers[2].unknown = "P"
    /\ solvers[2].solutions # << >>

====
